---------------------------- MODULE Spec2Model ----------------------------
(***************************************************************************)
(* A model of the RAG pipeline of anand-751/Relinn-s_Project:               *)
(*   scraper.py     crawl_website / scrape_website   (SpecCrawl)            *)
(*   preprocess.py  chunk_text        (SpecChunk, FairSpecChunk)            *)
(*   preprocess.py  preprocess_scraped_data / main   (SpecPre)              *)
(*   chatbot.py     run_chatbot                      (SpecChat)             *)
(* A Python str is modelled as a sequence of one-character strings, a list  *)
(* as a sequence, a dictionary key that may be absent as Missing or Some(v).*)
(* Each program runs by itself: a specification starts one of them and      *)
(* leaves the others idle.                                                  *)
(***************************************************************************)
EXTENDS Integers, Sequences, FiniteSets, TLC

VARIABLES
    \* chunk_text(words, chunk_size, overlap): its arguments and locals
    words, chunk_size, overlap, start, chunks, cpc, iters,
    \* preprocess.py main(): the input file, the parsed arguments, the locals
    \* of preprocess_scraped_data and the output file
    file_exists, data, args, ppc, page_i, all_chunks, chunk_metadata,
    processed, output_file,
    \* scraper.py scrape_website(): the site's answers, the locals of
    \* crawl_website, the [WARN] lines printed and the output file
    sitemap, filtered_urls, url_i, visited, pages_data, warned, kpc,
    site_data, scrape_file,
    \* chatbot.py run_chatbot(): the environment, the index, the line read and
    \* the locals of the loop, and what was handed to the chain
    api_key, store, hpc, line, question, docs, context, payload, turns

cvars == <<words, chunk_size, overlap, start, chunks, cpc, iters>>
pvars == <<file_exists, data, args, ppc, page_i, all_chunks, chunk_metadata,
           processed, output_file>>
kvars == <<sitemap, filtered_urls, url_i, visited, pages_data, warned, kpc,
           site_data, scrape_file>>
hvars == <<api_key, store, hpc, line, question, docs, context, payload, turns>>
vars == <<cvars, pvars, kvars, hvars>>

\* What a step of one program leaves alone: the state of the others.
notChunk == <<pvars, kvars, hvars>>
notPre == <<cvars, kvars, hvars>>
notCrawl == <<cvars, pvars, hvars>>
notChat == <<cvars, pvars, kvars>>

\* An optional value (a dictionary key that may be absent, a local that may be
\* unset, a file that may not exist) is <<>> when absent and <<v>> when it is v.
Missing == <<>>

Some(v) == <<v>>

-----------------------------------------------------------------------------
(* Bounds of the model *)

\* Inputs of chunk_text: at most MaxWords words, a chunk size of 0 to
\* MaxChunkSize and an overlap of -1 to MaxOverlap.
MaxWords == 4
MaxChunkSize == 3
MaxOverlap == 4

\* Inputs of the aggregator: pages of MIN_WORDS - 1 to MIN_WORDS + MaxExtraWords
\* words, at most MaxPageList of them, and a small chunk size and overlap
\* beside the defaults.
MaxExtraWords == 1
MaxPageList == 2
SmallChunk == 16
SmallOverlap == 5

\* Inputs of the crawler: sitemaps of at most MaxSitemap URLs, and one long
\* sitemap of more than MAX_PAGES URLs; the pages of the first MaxUnreliable
\* URLs are the ones that may fail to load or to parse.
MaxSitemap == 3
MaxUnreliable == 2

\* Inputs of the chatbot: an index of at most MaxDocs chunks, and MaxTurns
\* questions in a session.
MaxDocs == 3
MaxTurns == 2

\* chatbot.py: the configuration.
TOP_K == 8

\* scraper.py: the configuration.
MAX_PAGES == 400

\* preprocess.py: the configuration and the literal of line 76.
DEFAULT_CHUNK_SIZE == 250
DEFAULT_OVERLAP == 40
MIN_WORDS == 40

\* The while loop of chunk_text has no bound of its own when the stride is not
\* positive; the model stops following it after MaxIter passes.
MaxIter == MaxWords + 2

-----------------------------------------------------------------------------
(* Python str and list primitives *)

Min(a, b) == IF a < b THEN a ELSE b

\* The characters \s matches among those the model uses.
Whitespace == {" ", "\n", "\t"}

\* The str of the one character c.
Str(c) == <<c>>

\* The longest prefix of s made of whitespace: its length.
RECURSIVE SpaceRun(_)
SpaceRun(s) ==
    IF s # <<>> /\ Head(s) \in Whitespace THEN 1 + SpaceRun(Tail(s)) ELSE 0

\* The longest prefix of s free of whitespace: its length.
RECURSIVE WordRun(_)
WordRun(s) ==
    IF s # <<>> /\ Head(s) \notin Whitespace THEN 1 + WordRun(Tail(s)) ELSE 0

\* s[n:]
Drop(s, n) == SubSeq(s, n + 1, Len(s))

\* The concatenation parts[lo] \o ... \o parts[hi], by halves.
RECURSIVE Concat(_, _, _)
Concat(parts, lo, hi) ==
    IF lo > hi THEN <<>>
    ELSE IF lo = hi THEN parts[lo]
    ELSE LET mid == (lo + hi) \div 2
         IN  Concat(parts, lo, mid) \o Concat(parts, mid + 1, hi)

\* re.sub(r"\s+", " ", s): a whitespace character becomes a space when it
\* starts a run of whitespace, and nothing otherwise.
CollapseSpaces(s) ==
    Concat([i \in 1..Len(s) |->
               IF s[i] \notin Whitespace THEN <<s[i]>>
               ELSE IF i > 1 /\ s[i - 1] \in Whitespace THEN <<>>
               ELSE <<" ">>],
           1, Len(s))

\* s.strip()
RECURSIVE RStrip(_)
RStrip(s) ==
    IF s # <<>> /\ s[Len(s)] \in Whitespace
    THEN RStrip(SubSeq(s, 1, Len(s) - 1)) ELSE s

Strip(s) == RStrip(Drop(s, SpaceRun(s)))

\* s.split(): the maximal whitespace-free runs of s, in order. A run starts at
\* i when s[i] is no whitespace and s[i-1] is (or i is the first index).
split(s) ==
    Concat([i \in 1..Len(s) |->
               IF s[i] \notin Whitespace /\ (i = 1 \/ s[i - 1] \in Whitespace)
               THEN <<SubSeq(s, i, i + WordRun(Drop(s, i - 1)) - 1)>>
               ELSE <<>>],
           1, Len(s))

\* sep.join(parts)
Join(parts, sep) ==
    Concat([i \in 1..Len(parts) |->
               IF i = 1 THEN parts[i] ELSE sep \o parts[i]],
           1, Len(parts))

\* seq[lo:hi] with Python's rules: a negative index counts from the end, and
\* both indices are clamped to [0, len(seq)].
PySlice_DropLast(seq, lo, hi) ==
    LET n == Len(seq)
        norm(i) == IF i < 0 THEN (IF i + n < 0 THEN 0 ELSE i + n)
                   ELSE Min(i, n)
        a == norm(lo)
        b == norm(hi - 1)
    IN  IF a >= b THEN <<>> ELSE SubSeq(seq, a + 1, b)

PySlice(seq, lo, hi) ==
    LET n == Len(seq)
        norm(i) == IF i < 0 THEN (IF i + n < 0 THEN 0 ELSE i + n)
                   ELSE Min(i, n)
        a == norm(lo)
        b == norm(hi)
    IN  IF a >= b THEN <<>> ELSE SubSeq(seq, a + 1, b)

\* clean_text(text) of preprocess.py
clean_text(text) ==
    IF text = <<>> THEN <<>> ELSE Strip(CollapseSpaces(text))

-----------------------------------------------------------------------------
(* chunk_text *)

\* The while condition of chunk_text.
LoopCond_Inclusive(st, ws) == st <= Len(ws)

LoopCond(st, ws) == st < Len(ws)

\* One pass of the while body: from [start, chunks] to the next [start, chunks].
LoopBody_StrideIgnoresOverlap(st, ws, size, ov) ==
    LET end == st.start + size
        chunk_words == PySlice(ws, st.start, end)
    IN  [start |-> st.start + size,
         chunks |-> IF chunk_words # <<>>
                    THEN Append(st.chunks, Join(chunk_words, Str(" ")))
                    ELSE st.chunks]

LoopBody(st, ws, size, ov) ==
    LET end == st.start + size
        chunk_words == PySlice(ws, st.start, end)
    IN  [start |-> st.start + (size - ov),
         chunks |-> IF chunk_words # <<>>
                    THEN Append(st.chunks, Join(chunk_words, Str(" ")))
                    ELSE st.chunks]

\* chunk_text as a function, for its callers. It is defined where the loop
\* ends: with a stride size - ov <= 0 and a non-empty ws, start never reaches
\* len(ws) (NonPositiveStrideNeverReturns below).
RECURSIVE ChunkLoop(_, _, _, _)
ChunkLoop(st, ws, size, ov) ==
    IF LoopCond(st.start, ws)
    THEN ChunkLoop(LoopBody(st, ws, size, ov), ws, size, ov)
    ELSE st.chunks

chunk_text(ws, size, ov) == ChunkLoop([start |-> 0, chunks |-> <<>>], ws, size, ov)

\* The words chunk_text is called with in SpecChunk.
Vocabulary == {Str("a"), <<"b", "c">>}

WordLists == UNION {[1..n -> Vocabulary] : n \in 0..MaxWords}

IdleChunk ==
    /\ words = <<>> /\ chunk_size = 0 /\ overlap = 0
    /\ start = 0 /\ chunks = <<>> /\ cpc = "idle" /\ iters = 0

\* The call chunk_text(words, chunk_size, overlap), after lines 35-36.
CallChunk ==
    /\ words \in WordLists
    /\ chunk_size \in 0..MaxChunkSize
    /\ overlap \in -1..MaxOverlap
    /\ start = 0
    /\ chunks = <<>>
    /\ cpc = "loop"
    /\ iters = 0

\* One pass of the while loop (lines 38-43).
ChunkIter ==
    /\ cpc = "loop"
    /\ LoopCond(start, words)
    /\ iters < MaxIter
    /\ LET nxt == LoopBody([start |-> start, chunks |-> chunks],
                           words, chunk_size, overlap)
       IN  /\ start' = nxt.start
           /\ chunks' = nxt.chunks
    /\ iters' = iters + 1
    /\ UNCHANGED <<words, chunk_size, overlap, cpc>>
    /\ UNCHANGED notChunk

\* The loop condition fails: return chunks (line 45).
ChunkReturn ==
    /\ cpc = "loop"
    /\ ~LoopCond(start, words)
    /\ cpc' = "returned"
    /\ UNCHANGED <<words, chunk_size, overlap, start, chunks, iters>>
    /\ UNCHANGED notChunk


-----------------------------------------------------------------------------
(* preprocess_scraped_data and main of preprocess.py *)

\* s * n
Repeat(s, n) == [i \in 1..(n * Len(s)) |-> s[((i - 1) % Len(s)) + 1]]

\* The page records of a scrape output. Page j has its own URL and its own
\* body word, so that a chunk shows the page it was cut from.
PageUrls == <<"https://site/platform", "https://site/pricing",
              "https://site/tools", "https://site/security">>

BodyWords == <<"x", "y", "z", "w">>

\* A page of `total` words in all: `layout` says where they are.
\*   "bare"    no title, no headings, the body alone
\*   "headed"  a title and two headings (four words, irregular whitespace)
\*             and a body of lines
MakePage(j, layout, total) ==
    IF layout = "bare"
    THEN [page_url |-> PageUrls[j],
          title |-> <<>>,
          headings |-> <<>>,
          full_text |-> Repeat(<<BodyWords[j], " ">>, total)]
    ELSE [page_url |-> PageUrls[j],
          title |-> <<" ", "T", "\t">>,
          headings |-> <<[tag |-> "h1", text |-> <<"H", " ", " ", "I">>],
                         [tag |-> "h2", text |-> <<"J">>]>>,
          full_text |-> Repeat(<<BodyWords[j], "\n">>, total - 4)]

PageShapes ==
    {<<"bare", 0>>}
        \cup ({"bare", "headed"} \X ((MIN_WORDS - 1)..(MIN_WORDS + MaxExtraWords)))

PageLists ==
    UNION {{[j \in 1..n |-> MakePage(j, sh[j][1], sh[j][2])] :
               sh \in [1..n -> PageShapes]} : n \in 0..MaxPageList}

\* The parsed input file: site_pages, or pages in it, may be absent.
InputData ==
    {[source_url |-> "https://site", site_pages |-> Missing],
     [source_url |-> "https://site", site_pages |-> Some([pages |-> Missing])]}
        \cup {[source_url |-> "https://site",
                site_pages |-> Some([pages |-> Some(ps)])] : ps \in PageLists}

\* --chunk_size and --overlap: any integers (argparse type=int).
InputArgs ==
    [chunk_size : {DEFAULT_CHUNK_SIZE, SmallChunk},
     overlap : {DEFAULT_OVERLAP, SmallOverlap, 0}]

\* d.get(key, default)
Get(value, default) == IF value = Missing THEN default ELSE value[1]

\* data.get("site_pages", {}).get("pages", [])   (line 58)
PagesOf(d) ==
    LET site_pages == Get(d.site_pages, [pages |-> Missing])
    IN  Get(site_pages.pages, <<>>)

\* combined_text (lines 66-73)
CombinedText(page) ==
    LET title == page.title
        headings == Join([i \in 1..Len(page.headings) |-> page.headings[i].text],
                         Str(" "))
        body == page.full_text
    IN  clean_text(Join(<<title, headings, body>>, Str(" ")))

\* The test of line 76.
IsSkipped_Inclusive(combined_text) == Len(split(combined_text)) <= MIN_WORDS

IsSkipped(combined_text) == Len(split(combined_text)) < MIN_WORDS

\* The metadata entry of lines 84-87.
ChunkMeta_OneBased(page_url, idx) ==
    [page_url |-> page_url, chunk_index |-> idx + 1]

ChunkMeta(page_url, idx) ==
    [page_url |-> page_url, chunk_index |-> idx]

\* The result of lines 89-97.
Corpus(d, a, cs, md) ==
    [source_url |-> d.source_url,
     processed_at |-> "utcnow",
     chunk_size |-> a.chunk_size,
     overlap |-> a.overlap,
     total_chunks |-> Len(cs),
     chunks |-> cs,
     chunk_metadata |-> md]

\* python preprocess.py --input <path> --chunk_size S --overlap O
CallPre ==
    /\ file_exists \in BOOLEAN
    /\ data \in InputData
    /\ args \in InputArgs
    /\ ppc = "main"
    /\ page_i = 0
    /\ all_chunks = <<>>
    /\ chunk_metadata = <<>>
    /\ processed = Missing
    /\ output_file = Missing

\* main, lines 131-132: the input path does not exist.
PreFileNotFound ==
    /\ ppc = "main"
    /\ ~file_exists
    /\ ppc' = "FileNotFoundError"
    /\ UNCHANGED <<file_exists, data, args, page_i, all_chunks, chunk_metadata,
                   processed, output_file>>
    /\ UNCHANGED notPre

\* main, lines 134-142, and preprocess_scraped_data, lines 58-61: load the file
\* and enter the loop over pages.
PreLoad ==
    /\ ppc = "main"
    /\ file_exists
    /\ ppc' = "pages"
    /\ page_i' = 0
    /\ all_chunks' = <<>>
    /\ chunk_metadata' = <<>>
    /\ UNCHANGED <<file_exists, data, args, processed, output_file>>
    /\ UNCHANGED notPre

\* One pass of the for loop (lines 63-77) over a page that is skipped.
PrePageSkip ==
    /\ ppc = "pages"
    /\ page_i < Len(PagesOf(data))
    /\ IsSkipped(CombinedText(PagesOf(data)[page_i + 1]))
    /\ page_i' = page_i + 1
    /\ UNCHANGED <<file_exists, data, args, ppc, all_chunks, chunk_metadata,
                   processed, output_file>>
    /\ UNCHANGED notPre

\* One pass of the for loop (lines 63-87) over a page that is chunked.
PrePageChunk ==
    /\ ppc = "pages"
    /\ page_i < Len(PagesOf(data))
    /\ LET page == PagesOf(data)[page_i + 1]
           combined_text == CombinedText(page)
       IN  /\ ~IsSkipped(combined_text)
           /\ args.chunk_size - args.overlap > 0
           /\ LET chunks_ == chunk_text(split(combined_text), args.chunk_size,
                                        args.overlap)
              IN  /\ all_chunks' = all_chunks \o chunks_
                  /\ chunk_metadata' = chunk_metadata \o
                         [idx \in 1..Len(chunks_) |->
                             ChunkMeta(page.page_url, idx - 1)]
    /\ page_i' = page_i + 1
    /\ UNCHANGED <<file_exists, data, args, ppc, processed, output_file>>
    /\ UNCHANGED notPre

\* A page of MIN_WORDS words or more with a stride <= 0: the call of
\* chunk_text at line 80 never returns (NonPositiveStrideNeverReturns).
PrePageHang ==
    /\ ppc = "pages"
    /\ page_i < Len(PagesOf(data))
    /\ ~IsSkipped(CombinedText(PagesOf(data)[page_i + 1]))
    /\ args.chunk_size - args.overlap <= 0
    /\ ppc' = "chunk_text never returns"
    /\ UNCHANGED <<file_exists, data, args, page_i, all_chunks, chunk_metadata,
                   processed, output_file>>
    /\ UNCHANGED notPre

\* The loop is over: return the corpus (lines 89-97).
PreReturn ==
    /\ ppc = "pages"
    /\ page_i = Len(PagesOf(data))
    /\ processed' = Some(Corpus(data, args, all_chunks, chunk_metadata))
    /\ ppc' = "returned"
    /\ UNCHANGED <<file_exists, data, args, page_i, all_chunks, chunk_metadata,
                   output_file>>
    /\ UNCHANGED notPre

\* main, lines 144-147: save_processed_output writes the output file.
PreSave ==
    /\ ppc = "returned"
    /\ output_file' = processed
    /\ ppc' = "done"
    /\ UNCHANGED <<file_exists, data, args, page_i, all_chunks, chunk_metadata,
                   processed>>
    /\ UNCHANGED notPre

IdlePre ==
    /\ file_exists = FALSE /\ data = Missing /\ args = Missing
    /\ ppc = "idle" /\ page_i = 0 /\ all_chunks = <<>>
    /\ chunk_metadata = <<>> /\ processed = Missing /\ output_file = Missing

-----------------------------------------------------------------------------
(* crawl_website and scrape_website of scraper.py *)

\* A URL of the sitemap. Of its path the crawler reads two things only:
\* whether path.lower() holds one of EXCLUDED_PATH_KEYWORDS and whether it
\* holds one of ALLOWED_PATH_KEYWORDS.
Url(n, excluded, allowed) == [id |-> n, excluded |-> excluded, allowed |-> allowed]

\* is_valid_content_url: the exclusions first, then the allowed paths.
is_valid_content_url(url) ==
    IF url.excluded THEN FALSE
    ELSE IF url.allowed THEN TRUE
    ELSE FALSE

\* The <loc> lists a sitemap may hold: product pages (1, 2), a blog page under
\* a product path (3), a page of neither kind (4), in any order, repeated or
\* not; and a sitemap of more than MAX_PAGES product pages that names the
\* first one twice.
SitemapUrls ==
    {Url(1, FALSE, TRUE), Url(2, FALSE, TRUE), Url(3, TRUE, TRUE),
     Url(4, FALSE, FALSE)}

LongSitemap ==
    <<Url(1, FALSE, TRUE)>> \o [n \in 1..(MAX_PAGES + 2) |-> Url(n, FALSE, TRUE)]

Sitemaps ==
    UNION {[1..n -> SitemapUrls] : n \in 0..MaxSitemap} \cup {LongSitemap}

\* The URLs whose request may raise, and whose HTML may make parse_html raise.
Unreliable(url) == url.id <= MaxUnreliable

\* get_urls_from_sitemap: [] when the sitemap is not accessible.
get_urls_from_sitemap(resp) == Get(resp, <<>>)

\* The test of line 183.
PageLimitReached_Off(seen) == Cardinality(seen) > MAX_PAGES

PageLimitReached(seen) == Cardinality(seen) >= MAX_PAGES

\* The record of lines 198-199: parse_html's fields come from the HTML and
\* are not read by the crawler; page_url is the URL.
Extracted(url) == [page_url |-> url]

\* The result of lines 206-209.
SiteData(seen, pages) == [total_pages |-> Cardinality(seen), pages |-> pages]

\* run_chatbot is not running.
IdleChat ==
    /\ api_key = FALSE /\ store = <<>> /\ hpc = "idle" /\ line = <<>>
    /\ question = <<>> /\ docs = <<>> /\ context = <<>> /\ payload = Missing
    /\ turns = 0

IdleCrawl ==
    /\ sitemap = Missing /\ filtered_urls = <<>> /\ url_i = 0
    /\ visited = {} /\ pages_data = <<>> /\ warned = <<>> /\ kpc = "idle"
    /\ site_data = Missing /\ scrape_file = Missing

\* python scraper.py --url <site>: scrape_website calls crawl_website
\* (lines 217-219, 170-171).
CallCrawl ==
    /\ sitemap \in {Missing} \cup {Some(urls) : urls \in Sitemaps}
    /\ filtered_urls = <<>>
    /\ url_i = 0
    /\ visited = {}
    /\ pages_data = <<>>
    /\ warned = <<>>
    /\ kpc = "sitemap"
    /\ site_data = Missing
    /\ scrape_file = Missing

\* Lines 173-180: read the sitemap and keep the content URLs.
CrawlSitemap ==
    /\ kpc = "sitemap"
    /\ filtered_urls' = SelectSeq(get_urls_from_sitemap(sitemap),
                                  is_valid_content_url)
    /\ url_i' = 0
    /\ kpc' = "loop"
    /\ UNCHANGED <<sitemap, visited, pages_data, warned, site_data, scrape_file>>
    /\ UNCHANGED notCrawl

\* Lines 183-184: break once MAX_PAGES pages were visited.
CrawlBreak ==
    /\ kpc = "loop"
    /\ url_i < Len(filtered_urls)
    /\ PageLimitReached(visited)
    /\ kpc' = "after_loop"
    /\ UNCHANGED <<sitemap, filtered_urls, url_i, visited, pages_data, warned,
                   site_data, scrape_file>>
    /\ UNCHANGED notCrawl

\* Lines 186-187: a URL seen before is passed over.
CrawlSkipVisited ==
    /\ kpc = "loop"
    /\ url_i < Len(filtered_urls)
    /\ ~PageLimitReached(visited)
    /\ filtered_urls[url_i + 1] \in visited
    /\ url_i' = url_i + 1
    /\ UNCHANGED <<sitemap, filtered_urls, visited, pages_data, warned, kpc,
                   site_data, scrape_file>>
    /\ UNCHANGED notCrawl

\* Lines 189-194: fetch_html raises; the URL is reported and passed over.
CrawlFetchFails ==
    /\ kpc = "loop"
    /\ url_i < Len(filtered_urls)
    /\ ~PageLimitReached(visited)
    /\ filtered_urls[url_i + 1] \notin visited
    /\ Unreliable(filtered_urls[url_i + 1])
    /\ warned' = Append(warned, filtered_urls[url_i + 1])
    /\ url_i' = url_i + 1
    /\ UNCHANGED <<sitemap, filtered_urls, visited, pages_data, kpc, site_data,
                   scrape_file>>
    /\ UNCHANGED notCrawl

\* Lines 189-202: the page is fetched, marked visited, parsed and recorded.
CrawlPage ==
    /\ kpc = "loop"
    /\ url_i < Len(filtered_urls)
    /\ ~PageLimitReached(visited)
    /\ filtered_urls[url_i + 1] \notin visited
    /\ visited' = visited \cup {filtered_urls[url_i + 1]}
    /\ pages_data' = Append(pages_data, Extracted(filtered_urls[url_i + 1]))
    /\ url_i' = url_i + 1
    /\ UNCHANGED <<sitemap, filtered_urls, warned, kpc, site_data, scrape_file>>
    /\ UNCHANGED notCrawl

\* Lines 189-198: the page is fetched and marked visited, and parse_html
\* raises. It is called outside the try of lines 189-194: the exception
\* leaves crawl_website, scrape_website and main.
CrawlParseRaises ==
    /\ kpc = "loop"
    /\ url_i < Len(filtered_urls)
    /\ ~PageLimitReached(visited)
    /\ filtered_urls[url_i + 1] \notin visited
    /\ Unreliable(filtered_urls[url_i + 1])
    /\ visited' = visited \cup {filtered_urls[url_i + 1]}
    /\ kpc' = "exception"
    /\ UNCHANGED <<sitemap, filtered_urls, url_i, pages_data, warned, site_data,
                   scrape_file>>
    /\ UNCHANGED notCrawl

\* The for loop of line 182 is out of URLs.
CrawlLoopEnd ==
    /\ kpc = "loop"
    /\ url_i = Len(filtered_urls)
    /\ kpc' = "after_loop"
    /\ UNCHANGED <<sitemap, filtered_urls, url_i, visited, pages_data, warned,
                   site_data, scrape_file>>
    /\ UNCHANGED notCrawl

\* Lines 204-209: crawl_website returns.
CrawlReturn ==
    /\ kpc = "after_loop"
    /\ site_data' = Some(SiteData(visited, pages_data))
    /\ kpc' = "returned"
    /\ UNCHANGED <<sitemap, filtered_urls, url_i, visited, pages_data, warned,
                   scrape_file>>
    /\ UNCHANGED notCrawl

\* scrape_website, lines 221-234: the output file is written.
ScrapeSave ==
    /\ kpc = "returned"
    /\ scrape_file' = Some([source_url |-> "https://site",
                            scraped_at |-> "utcnow",
                            site_pages |-> site_data[1]])
    /\ kpc' = "done"
    /\ UNCHANGED <<sitemap, filtered_urls, url_i, visited, pages_data, warned,
                   site_data>>
    /\ UNCHANGED notCrawl

InitCrawl == CallCrawl /\ IdleChunk /\ IdlePre /\ IdleChat

NextCrawl ==
    \/ CrawlSitemap
    \/ CrawlBreak
    \/ CrawlSkipVisited
    \/ CrawlFetchFails
    \/ CrawlPage
    \/ CrawlParseRaises
    \/ CrawlLoopEnd
    \/ CrawlReturn
    \/ ScrapeSave

SpecCrawl == InitCrawl /\ [][NextCrawl]_vars

-----------------------------------------------------------------------------
(* run_chatbot of chatbot.py *)

\* c.lower(), for the letters the model's lines use.
LowerChar(c) ==
    CASE c = "E" -> "e" [] c = "X" -> "x" [] c = "I" -> "i" [] c = "T" -> "t"
      [] c = "Q" -> "q" [] c = "U" -> "u" [] OTHER -> c

\* s.lower()
Lower(s) == [i \in 1..Len(s) |-> LowerChar(s[i])]

\* The lines typed at the prompt.
InputLines ==
    {<<"e", "x", "i", "t">>,
     <<" ", "Q", "u", "i", "t", "\t">>,
     <<"e", "x", "i", "t", "s">>,
     <<"h", "i">>,
     <<" ", "h", "i", " ", "u", " ", " ">>,
     <<>>}

ExitWords == {<<"e", "x", "i", "t">>, <<"q", "u", "i", "t">>}

\* The chunk texts an index may hold: the same text may be in it twice.
ChunkTexts == {Str("A"), <<"B", " ", "C">>}

\* The documents of an index built by embed_store.py from `texts`.
Documents(texts) ==
    [i \in 1..Len(texts) |->
        [page_content |-> texts[i],
         metadata |-> [page_url |-> "https://site/platform",
                       chunk_index |-> i - 1]]]

Stores == {Documents(texts) : texts \in UNION {[1..n -> ChunkTexts] : n \in 0..MaxDocs}}

\* vectorstore.similarity_search(question, k): the k nearest documents of the
\* index, nearest first, or all of them when it holds fewer; which ones and
\* in which order is the index's business.
similarity_search(vs, q, k) ==
    LET m == Min(k, Len(vs))
    IN  {[i \in 1..m |-> vs[r[i]]] :
            r \in {f \in [1..m -> 1..Len(vs)] :
                      \A a, b \in 1..m : a # b => f[a] # f[b]}}

\* The context of line 82.
Context_Deduplicated(ds) ==
    Join(Concat([i \in 1..Len(ds) |->
                    IF \E j \in 1..(i - 1) : ds[j].page_content = ds[i].page_content
                    THEN <<>> ELSE <<ds[i].page_content>>],
                1, Len(ds)),
         <<"\n", "\n">>)

Context(ds) ==
    Join([i \in 1..Len(ds) |-> ds[i].page_content], <<"\n", "\n">>)

\* python chatbot.py --index <dir>: main loads the index and calls run_chatbot.
CallChat ==
    /\ api_key \in BOOLEAN
    /\ store \in Stores
    /\ hpc = "start"
    /\ line = <<>>
    /\ question = <<>>
    /\ docs = <<>>
    /\ context = <<>>
    /\ payload = Missing
    /\ turns = 0

\* Lines 62-63: GROQ_API_KEY is not set.
ChatNoKey ==
    /\ hpc = "start"
    /\ ~api_key
    /\ hpc' = "EnvironmentError"
    /\ UNCHANGED <<api_key, store, line, question, docs, context, payload, turns>>
    /\ UNCHANGED notChat

\* Lines 65-73: the model, the prompt and the parser are built.
ChatReady ==
    /\ hpc = "start"
    /\ api_key
    /\ hpc' = "prompt"
    /\ UNCHANGED <<api_key, store, line, question, docs, context, payload, turns>>
    /\ UNCHANGED notChat

\* Lines 76-79: the line read is exit or quit.
ChatExit ==
    /\ hpc = "prompt"
    /\ \E typed \in InputLines :
           /\ Lower(Strip(typed)) \in ExitWords
           /\ line' = typed
           /\ question' = Strip(typed)
    /\ hpc' = "bye"
    /\ UNCHANGED <<api_key, store, docs, context, payload, turns>>
    /\ UNCHANGED notChat

\* Lines 76-87: a question is read, the index is searched, the context is
\* composed and the chain is invoked with the context and the question.
ChatAsk ==
    /\ hpc = "prompt"
    /\ turns < MaxTurns
    /\ \E typed \in InputLines :
           /\ Lower(Strip(typed)) \notin ExitWords
           /\ line' = typed
           /\ question' = Strip(typed)
           /\ \E found \in similarity_search(store, Strip(typed), TOP_K) :
                  /\ docs' = found
                  /\ context' = Context(found)
                  /\ payload' = Some([context |-> Context(found),
                                      question |-> Strip(typed)])
    /\ turns' = turns + 1
    /\ UNCHANGED <<api_key, store, hpc>>
    /\ UNCHANGED notChat

InitChat == CallChat /\ IdleChunk /\ IdlePre /\ IdleCrawl

NextChat == ChatNoKey \/ ChatReady \/ ChatExit \/ ChatAsk

SpecChat == InitChat /\ [][NextChat]_vars

InitChunk == CallChunk /\ IdlePre /\ IdleCrawl /\ IdleChat

NextChunk == ChunkIter \/ ChunkReturn

SpecChunk == InitChunk /\ [][NextChunk]_vars

InitPre == CallPre /\ IdleChunk /\ IdleCrawl /\ IdleChat

NextPre ==
    \/ PreFileNotFound
    \/ PreLoad
    \/ PrePageSkip
    \/ PrePageChunk
    \/ PrePageHang
    \/ PreReturn
    \/ PreSave

SpecPre == InitPre /\ [][NextPre]_vars

\* The interpreter runs the loop of a called function until it ends.
FairSpecChunk == SpecChunk /\ WF_vars(NextChunk)

-----------------------------------------------------------------------------
(* Properties of chunk_text *)

\* 0 <= O < S
ValidConfig == 0 <= overlap /\ overlap < chunk_size

Stride == chunk_size - overlap

CeilDiv(a, b) == (a + b - 1) \div b

SumLen(parts) == Len(Concat(parts, 1, Len(parts)))

\* s is the words ws (none empty, none holding whitespace) with one space
\* between neighbours and nothing else.
JoinedBySingleSpaces(s, ws) ==
    /\ ws # <<>>
    /\ split(s) = ws
    /\ Len(s) = SumLen(ws) + Len(ws) - 1
    /\ \A j \in 1..Len(s) : s[j] \in Whitespace => s[j] = " "

\* The words at indices [i*(S-O), min(i*(S-O)+S, N)), i counted from 0.
WindowWords(i) ==
    SubSeq(words, i * Stride + 1, Min(i * Stride + chunk_size, Len(words)))

\* A lemma the aggregator's model rests on: with a stride <= 0 and a non-empty
\* input the loop of chunk_text never ends.
NonPositiveStrideNeverReturns ==
    (Stride <= 0 /\ words # <<>>) => cpc # "returned"

\* C1: for a valid (S, O), chunk i is exactly the words at indices
\* [i*(S-O), min(i*(S-O)+S, N)) joined with single spaces, consecutive chunks
\* start S-O words apart (the k-th pass cuts at (k-1)*(S-O)), and when the
\* function has returned every word index lies in some chunk's range.
C1_ChunkWindows ==
    ValidConfig =>
        /\ Len(chunks) = iters
        /\ start = iters * Stride
        /\ \A i \in 1..Len(chunks) :
               JoinedBySingleSpaces(chunks[i], WindowWords(i - 1))
        /\ cpc = "returned" =>
               \A k \in 0..(Len(words) - 1) :
                   \E i \in 0..(Len(chunks) - 1) :
                       /\ i * Stride <= k
                       /\ k < Min(i * Stride + chunk_size, Len(words))

\* A returned chunk list with overlapping windows and a clamped last chunk.
C1_Witness ==
    /\ cpc = "returned" /\ ValidConfig /\ overlap > 0
    /\ Len(chunks) >= 2
    /\ (Len(chunks) - 1) * Stride + chunk_size > Len(words)
    /\ Stride < Len(words)

\* C2 as stated: a non-empty input shorter than S yields exactly one chunk,
\* the whole input joined with single spaces.
C2_ShortInputOneChunk ==
    (cpc = "returned" /\ ValidConfig /\ words # <<>> /\ Len(words) < chunk_size)
        => /\ Len(chunks) = 1
           /\ JoinedBySingleSpaces(chunks[1], words)

\* C2 amended: a non-empty input shorter than S yields the whole input as its
\* first chunk, and that is the only chunk exactly when N <= S-O; otherwise
\* ceil(N/(S-O)) chunks are returned.
C2_ShortInputFirstChunkWhole ==
    (cpc = "returned" /\ ValidConfig /\ words # <<>> /\ Len(words) < chunk_size)
        => /\ Len(chunks) >= 1
           /\ JoinedBySingleSpaces(chunks[1], words)
           /\ (Len(chunks) = 1 <=> Len(words) <= Stride)
           /\ Len(chunks) = CeilDiv(Len(words), Stride)

\* A short input that came back as more than one chunk.
C2_Witness ==
    /\ cpc = "returned" /\ ValidConfig
    /\ words # <<>> /\ Len(words) < chunk_size
    /\ Len(chunks) >= 2

\* C3 as stated: called with O >= S (here on a non-empty input, as the
\* aggregator calls it) the chunker raises before windowing: no pass of the
\* loop runs and no chunk list is returned.
C3_InvalidOverlapFailsFast ==
    (overlap >= chunk_size /\ words # <<>>) => (iters = 0 /\ cpc # "returned")

\* What holds in every state of a call with a valid (S, O).
C9_LoopInvariant ==
    ValidConfig =>
        /\ iters <= CeilDiv(Len(words), Stride)
        /\ iters > 0 => start - Stride < Len(words)
        /\ \A i \in 1..Len(chunks) :
               /\ Len(split(chunks[i])) >= 1
               /\ Len(split(chunks[i])) <= chunk_size
        /\ cpc = "returned" =>
               /\ start >= Len(words)
               /\ Len(chunks) = CeilDiv(Len(words), Stride)
               /\ (words = <<>> => chunks = <<>>)

\* C9: for a valid (S, O) the loop of chunk_text terminates, it stops exactly
\* when start reaches or exceeds N (every pass was entered with start < N),
\* it returns ceil(N/(S-O)) chunks (none for the empty input), and every
\* chunk holds at least one and at most S words.
C9_LoopTerminates ==
    /\ []C9_LoopInvariant
    /\ ValidConfig => <>(cpc = "returned")

\* A returned list of several chunks where N is no multiple of the stride.
C9_Witness ==
    /\ cpc = "returned" /\ ValidConfig
    /\ Len(chunks) >= 2
    /\ Len(words) % Stride # 0

-----------------------------------------------------------------------------
(* Properties of preprocess_scraped_data and main *)

\* The words of a page, read off its fields one by one: the title's, each
\* heading's, the body's.
PageWordList(page) ==
    split(page.title)
        \o Concat([i \in 1..Len(page.headings) |-> split(page.headings[i].text)],
                  1, Len(page.headings))
        \o split(page.full_text)

\* The number of words of a string: the places where a word starts.
NumWordStarts(s) ==
    Cardinality({i \in 1..Len(s) :
                    s[i] \notin Whitespace /\ (i = 1 \/ s[i - 1] \in Whitespace)})

RECURSIVE SumWordStarts(_)
SumWordStarts(hs) ==
    IF hs = <<>> THEN 0 ELSE NumWordStarts(Head(hs).text) + SumWordStarts(Tail(hs))

NumWords(page) ==
    NumWordStarts(page.title) + SumWordStarts(page.headings)
        + NumWordStarts(page.full_text)

ValidArgs == 0 <= args.overlap /\ args.overlap < args.chunk_size

\* The number of chunks the spec gives a page: none under MIN_WORDS words,
\* ceil(N/(S-O)) otherwise.
ChunkCount(page) ==
    IF NumWords(page) < MIN_WORDS THEN 0
    ELSE CeilDiv(NumWords(page), args.chunk_size - args.overlap)

\* The number of chunks of the pages before page j.
RECURSIVE ChunkOffset(_, _)
ChunkOffset(pages, j) ==
    IF j = 1 THEN 0 ELSE ChunkOffset(pages, j - 1) + ChunkCount(pages[j - 1])

\* C4: in a returned corpus len(chunks) == len(chunk_metadata) == total_chunks;
\* the entries come in page order, each page's group carrying the chunk_index
\* values 0, 1, 2, ... in order; and entry i names the URL of the page
\* chunks[i] was cut from: chunks[i] is that page's window chunk_index.
C4_CorpusParallel ==
    ppc \in {"returned", "done"} =>
        LET c == processed[1]
            pages == PagesOf(data)
            stride == args.chunk_size - args.overlap
        IN  /\ Len(c.chunks) = Len(c.chunk_metadata)
            /\ Len(c.chunks) = c.total_chunks
            /\ c.total_chunks = ChunkOffset(pages, Len(pages) + 1)
            /\ \A j \in 1..Len(pages) :
                   \A k \in 0..(ChunkCount(pages[j]) - 1) :
                       LET i == ChunkOffset(pages, j) + k + 1
                           ws == PageWordList(pages[j])
                       IN  /\ c.chunk_metadata[i] =
                                  [page_url |-> pages[j].page_url,
                                   chunk_index |-> k]
                           /\ JoinedBySingleSpaces(
                                  c.chunks[i],
                                  SubSeq(ws, k * stride + 1,
                                         Min(k * stride + args.chunk_size,
                                             Len(ws))))
            /\ ppc = "done" => output_file = processed

\* A saved corpus of two pages of several chunks each.
C4_Witness ==
    /\ ppc = "done"
    /\ Len(PagesOf(data)) >= 2
    /\ ChunkCount(PagesOf(data)[1]) >= 2
    /\ ChunkCount(PagesOf(data)[2]) >= 2
    /\ Len(processed[1].chunk_metadata) >= 4

\* C5: in a returned corpus a page of fewer than MIN_WORDS words has no
\* metadata entry and no chunk (no chunk holds its body word); a page of
\* exactly MIN_WORDS words has an entry when 0 <= O < S; and the chunks are
\* those of the pages of MIN_WORDS words or more, each chunked by itself, in
\* page order: a skipped page changes nothing for the others.
C5_MinWordsFilter ==
    ppc \in {"returned", "done"} =>
        LET c == processed[1]
            pages == PagesOf(data)
        IN  /\ \A j \in 1..Len(pages) :
                   NumWords(pages[j]) < MIN_WORDS =>
                       /\ \A i \in 1..Len(c.chunk_metadata) :
                              c.chunk_metadata[i].page_url # pages[j].page_url
                       /\ \A i \in 1..Len(c.chunks) :
                              \A n \in 1..Len(c.chunks[i]) :
                                  c.chunks[i][n] # BodyWords[j]
            /\ \A j \in 1..Len(pages) :
                   (NumWords(pages[j]) = MIN_WORDS /\ ValidArgs) =>
                       \E i \in 1..Len(c.chunk_metadata) :
                           c.chunk_metadata[i].page_url = pages[j].page_url
            /\ c.chunks =
                   Concat([j \in 1..Len(pages) |->
                              IF NumWords(pages[j]) < MIN_WORDS THEN <<>>
                              ELSE chunk_text(PageWordList(pages[j]),
                                              args.chunk_size, args.overlap)],
                          1, Len(pages))

\* A saved corpus whose input held a page of MIN_WORDS - 1 words and, after
\* it, a page of exactly MIN_WORDS words.
C5_Witness ==
    /\ ppc = "done" /\ ValidArgs
    /\ Len(PagesOf(data)) >= 2
    /\ NumWords(PagesOf(data)[1]) = MIN_WORDS - 1
    /\ NumWords(PagesOf(data)[2]) = MIN_WORDS
    /\ processed[1].total_chunks >= 1

\* C8 as stated: an input without site_pages, or without pages in it, makes
\* preprocessing fail: no corpus is returned and no output file is written.
C8_MalformedInputRejected ==
    (ppc # "idle" /\ (\/ data.site_pages = Missing
                      \/ data.site_pages[1].pages = Missing))
        => (processed = Missing /\ output_file = Missing)

-----------------------------------------------------------------------------
(* Properties of crawl_website *)

\* C7 as stated: a failure to fetch or to parse one URL is not fatal: no
\* exception leaves the crawl, and a crawl that failed on a URL goes on through
\* the remaining URLs (to the end of the list or to the page limit) and ends
\* with an output file.
C7_PerUrlFailureNonFatal ==
    /\ kpc # "exception"
    /\ kpc \in {"after_loop", "returned", "done"} =>
           (url_i = Len(filtered_urls) \/ Cardinality(visited) >= MAX_PAGES)

\* What holds in every state of a crawl that no exception has ended.
C10_CrawlInvariant ==
    /\ Len(pages_data) <= MAX_PAGES
    /\ kpc # "exception" =>
           /\ Cardinality(visited) = Len(pages_data)
           /\ visited = {pages_data[i].page_url : i \in 1..Len(pages_data)}
    /\ kpc \in {"returned", "done"} =>
           /\ site_data[1].pages = pages_data
           /\ site_data[1].total_pages = Len(site_data[1].pages)
           /\ site_data[1].total_pages <= MAX_PAGES
    /\ kpc = "done" => scrape_file[1].site_pages = site_data[1]

\* What every step of a crawl does: a record is only ever added at the end of
\* pages, for the URL the loop is at, and the loop then moves on; a fetch that
\* fails (a [WARN] line) adds no URL to visited and no record.
C10_CrawlStep ==
    /\ pages_data' # pages_data =>
           /\ url_i < Len(filtered_urls)
           /\ pages_data' = Append(pages_data,
                                   [page_url |-> filtered_urls[url_i + 1]])
           /\ url_i' = url_i + 1
    /\ url_i' >= url_i
    /\ filtered_urls # <<>> => filtered_urls' = filtered_urls
    /\ warned' # warned => (visited' = visited /\ pages_data' = pages_data)

\* C10: after any crawl the pages list holds at most one record per URL
\* (as many records as distinct URLs visited), in sitemap order (records are
\* appended for the loop's current URL as it moves down the list),
\* total_pages is the number of records and is at most MAX_PAGES, and a
\* fetch that failed did not mark its URL visited.
C10_CrawlResult == []C10_CrawlInvariant /\ [][C10_CrawlStep]_vars

\* A crawl cut short by the page limit, after a fetch had failed.
C10_Witness ==
    /\ kpc = "done"
    /\ site_data[1].total_pages = MAX_PAGES
    /\ url_i < Len(filtered_urls)
    /\ warned # <<>>

-----------------------------------------------------------------------------
(* Properties of run_chatbot *)

\* Where the text of the i-th retrieved document starts in the context, less
\* one: after the texts before it and a blank line (two characters) each.
RECURSIVE ContextOffset(_, _)
ContextOffset(ds, i) ==
    IF i = 1 THEN 0
    ELSE ContextOffset(ds, i - 1) + Len(ds[i - 1].page_content) + 2

\* C6: the context handed to the generator is the retrieved chunk texts in
\* the rank order the index returned them, each one present (a text returned
\* twice is there twice), with "\n\n" between neighbours and nothing else;
\* and the question handed on is the question asked: the line read, less its
\* surrounding whitespace (line 76). Stated of the state an answered
\* question leaves: back at the prompt, with the locals of that turn.
C6_ContextInRankOrder ==
    (hpc = "prompt" /\ payload # Missing) =>
        LET ctx == payload[1].context
            n == Len(docs)
        IN  /\ Len(ctx) = IF n = 0 THEN 0
                          ELSE ContextOffset(docs, n) + Len(docs[n].page_content)
            /\ \A i \in 1..n :
                   LET off == ContextOffset(docs, i)
                   IN  /\ SubSeq(ctx, off + 1, off + Len(docs[i].page_content))
                              = docs[i].page_content
                       /\ i > 1 => SubSeq(ctx, off - 1, off) = <<"\n", "\n">>
            /\ payload[1].question = question
            /\ question = Strip(line)
            /\ docs \in similarity_search(store, question, TOP_K)

\* A question typed with surrounding whitespace, answered from three chunks
\* of which the first and the last have the same text, ranked in another
\* order than the index holds them.
C6_Witness ==
    /\ hpc = "prompt" /\ payload # Missing
    /\ Len(docs) >= 3
    /\ docs[1].page_content = docs[3].page_content
    /\ docs[1].metadata.chunk_index > docs[2].metadata.chunk_index
    /\ question # line
    /\ question # <<>>

=============================================================================
